---- MODULE Spec2Model ----
(***************************************************************************)
(* State-machine model of src/background.js, the background script of the  *)
(* automatic-screenshot extension.                                         *)
(*                                                                         *)
(* JavaScript runs one task at a time.  Every action below is one task:    *)
(* an event handler, or the continuation of an async function from the     *)
(* resolution of the promise it awaits up to its next await (or its end).  *)
(* The browser APIs are the environment: each call resolves or rejects,    *)
(* chosen nondeterministically.  A storage request is served at one moment *)
(* between its call and the task in which its promise settles: the writes  *)
(* and the lookup of updateStats are served at their calls, the lookup of  *)
(* getStatus when it settles.  The writes that the script does not await   *)
(* (in start and stop) are taken to succeed.                               *)
(***************************************************************************)
EXTENDS Integers, FiniteSets, Sequences, TLC

\* Number of takeScreenshot invocations explored (each gets its own slot).
MaxCycles == 2
\* Number of entries of TARGET_URLS that getRandomUrl draws from.
MaxUrls == 1

Cycles == 1..MaxCycles

\* src/background.js:7-12 -- the URLs, by their position in the list.
TARGET_URLS ==
  << "https://www.competitiondatabase.co.uk", "https://www.facebook.com",
     "https://www.google.com", "https://www.yahoo.com" >>

\* The value a storage lookup gives for a key that is not stored.
Undefined == -1

VARIABLES
  isRunning,      \* let isRunning          (line 2)
  intervalId,     \* let intervalId; 0 is null   (line 3)
  currentTabId,   \* let currentTabId; 0 is null (line 4)
  intervals,      \* the interval timers that are set and not cleared
  nextTimerId,    \* the id the next setInterval returns
  store,          \* chrome.storage.local: a function from the stored keys
  now,            \* the clock: what the next new Date() gives
  tabs,           \* the browser's tabs: id -> [url, status]
  activeTab,      \* the active tab of the current window; 0 when there is none
  cyc,            \* the takeScreenshot invocations: slot -> record
  statusPending,  \* a getStatus request is waiting for its storage lookup
  response,       \* what the last task passed to sendResponse, if anything
  saving          \* saveScreenshot taken alone: its sourceUrl, the Date it
                  \* reads and the filename it makes

vars == << isRunning, intervalId, currentTabId, intervals, nextTimerId, store,
           now, tabs, activeTab, cyc, statusPending, response, saving >>

\* No call of sendResponse.
NoResponse == [action |-> "none"]

\* saveScreenshot is not looked at alone.
NoSaving == [filename |-> << >>]

----------------------------------------------------------------------------
\* chrome.storage.local

\* get([k]) then result.k
Lookup(k) == IF k \in DOMAIN store THEN store[k] ELSE Undefined

\* set(m): the keys of m are written, the others are kept.
StorageSet(m) ==
  [k \in DOMAIN store \cup DOMAIN m |-> IF k \in DOMAIN m THEN m[k] ELSE store[k]]

\* (v || 0) for a number or undefined
OrZero(v) == IF v = Undefined THEN 0 ELSE v

----------------------------------------------------------------------------
\* One takeScreenshot invocation.  pc names the promise it is awaiting.

IdleCycle ==
  [pc |-> "idle", reply |-> FALSE, url |-> 0, tabId |-> 0, readTotal |-> 0,
   err |-> "none", listening |-> FALSE, timing |-> FALSE, getPending |-> FALSE]

Idle(c) == cyc[c].pc = "idle"
InFlight(c) == cyc[c].pc \notin {"idle", "done"}

\* The slot the next invocation takes.
FreeSlot == CHOOSE c \in Cycles : Idle(c) /\ \A d \in Cycles : Idle(d) => c <= d
HasFreeSlot == \E c \in Cycles : Idle(c)

\* getRandomUrl: an index into TARGET_URLS
getRandomUrl == {i \in 1..Len(TARGET_URLS) : i <= MaxUrls}

\* takeScreenshot up to its first await: the URL is chosen and
\* createOrUpdateTab has called chrome.tabs.query.
\* reply: the caller answers a 'takeScreenshotNow' message when the promise settles.
takeScreenshot(cs, c, u, rep) ==
  [cs EXCEPT ![c] = [IdleCycle EXCEPT !.pc = "query", !.reply = rep, !.url = u]]

----------------------------------------------------------------------------
\* The controller: start, stop, the periodic timer.

\* A start that leaves the first cycle to the first tick of the interval.
startWaitsForTick ==
  /\ HasFreeSlot
  /\ isRunning' = TRUE
  /\ intervalId' = nextTimerId
  /\ intervals' = intervals \cup {nextTimerId}
  /\ nextTimerId' = nextTimerId + 1
  /\ store' = StorageSet([isRunning |-> TRUE, lastRun |-> now, totalScreenshots |-> 0])
  /\ now' = now + 1
  /\ UNCHANGED << cyc, currentTabId, tabs, activeTab, statusPending >>

\* startAutomatedScreenshots past its guard (lines 36-52).
startFresh ==
  /\ HasFreeSlot
  /\ isRunning' = TRUE
  \* takeScreenshot() runs to its first await
  /\ \E u \in getRandomUrl : cyc' = takeScreenshot(cyc, FreeSlot, u, FALSE)
  \* intervalId = setInterval(...)
  /\ intervalId' = nextTimerId
  /\ intervals' = intervals \cup {nextTimerId}
  /\ nextTimerId' = nextTimerId + 1
  \* chrome.storage.local.set({isRunning, lastRun, totalScreenshots: 0})
  /\ store' = StorageSet([isRunning |-> TRUE, lastRun |-> now, totalScreenshots |-> 0])
  \* new Date(): a later reading of the clock gives a later time
  /\ now' = now + 1
  /\ UNCHANGED << currentTabId, tabs, activeTab, statusPending >>

\* Mutant: startAutomatedScreenshots with its guard left out.
startUnguarded == startFresh

\* Mutant: startAutomatedScreenshots writing the storage before its guard.
startResetsStore ==
  IF isRunning
    THEN /\ store' = StorageSet([isRunning |-> TRUE, lastRun |-> now,
                                 totalScreenshots |-> 0])
         /\ now' = now + 1
         /\ UNCHANGED << isRunning, intervalId, currentTabId, intervals, nextTimerId,
                         tabs, activeTab, cyc, statusPending >>
    ELSE startFresh

\* function startAutomatedScreenshots()
startAutomatedScreenshots ==
  IF isRunning
    THEN UNCHANGED << isRunning, intervalId, currentTabId, intervals, nextTimerId,
                      store, now, tabs, activeTab, cyc, statusPending >>
    ELSE startFresh

\* stopAutomatedScreenshots past its guard (lines 59-66).
stopNow ==
  /\ isRunning' = FALSE
  \* if (intervalId) { clearInterval(intervalId); intervalId = null; }
  /\ IF intervalId # 0
       THEN intervals' = intervals \ {intervalId} /\ intervalId' = 0
       ELSE UNCHANGED << intervals, intervalId >>
  /\ store' = StorageSet([isRunning |-> FALSE])
  /\ UNCHANGED << currentTabId, nextTimerId, now, tabs, activeTab, cyc, statusPending >>

\* Mutant: stopAutomatedScreenshots forgetting the handle without clearing the timer.
stopKeepsTimer ==
  IF ~isRunning
    THEN UNCHANGED << isRunning, intervalId, currentTabId, intervals, nextTimerId,
                      store, now, tabs, activeTab, cyc, statusPending >>
    ELSE /\ isRunning' = FALSE
         /\ intervalId' = 0
         /\ store' = StorageSet([isRunning |-> FALSE])
         /\ UNCHANGED << intervals, currentTabId, nextTimerId, now, tabs, activeTab,
                         cyc, statusPending >>

\* Mutant: stopAutomatedScreenshots with its guard left out.
stopUnguarded == stopNow

\* function stopAutomatedScreenshots()
stopAutomatedScreenshots ==
  IF ~isRunning
    THEN UNCHANGED << isRunning, intervalId, currentTabId, intervals, nextTimerId,
                      store, now, tabs, activeTab, cyc, statusPending >>
    ELSE stopNow

\* chrome.runtime.onStartup
OnStartup == startAutomatedScreenshots /\ response' = NoResponse /\ UNCHANGED saving

\* chrome.runtime.onInstalled
OnInstalled == startAutomatedScreenshots /\ response' = NoResponse /\ UNCHANGED saving

\* chrome.runtime.onSuspend (the file ends at the closing brace of the callback)
OnSuspend == stopAutomatedScreenshots /\ response' = NoResponse /\ UNCHANGED saving

\* onMessage, case 'start'
MsgStart ==
  /\ startAutomatedScreenshots
  /\ UNCHANGED saving
  /\ response' = [action |-> "start", success |-> TRUE]

\* onMessage, case 'stop'
MsgStop ==
  /\ stopAutomatedScreenshots
  /\ UNCHANGED saving
  /\ response' = [action |-> "stop", success |-> TRUE]

\* The callback of setInterval: one tick of an interval timer that is set.
TimerTick ==
  /\ intervals # {}
  /\ HasFreeSlot
  /\ \E u \in getRandomUrl : cyc' = takeScreenshot(cyc, FreeSlot, u, FALSE)
  /\ UNCHANGED << isRunning, intervalId, currentTabId, intervals, nextTimerId, store,
                  now, tabs, activeTab, statusPending >>
  /\ UNCHANGED saving
  /\ response' = NoResponse

\* A 'takeScreenshotNow' handler that also switches the automation on.
MsgTakeScreenshotNowStarts ==
  /\ HasFreeSlot
  /\ \E u \in getRandomUrl : cyc' = takeScreenshot(cyc, FreeSlot, u, TRUE)
  /\ isRunning' = TRUE
  /\ UNCHANGED << intervalId, currentTabId, intervals, nextTimerId, store,
                  now, tabs, activeTab, statusPending >>
  /\ UNCHANGED saving
  /\ response' = NoResponse

\* onMessage, case 'takeScreenshotNow': the cycle is started; the response is
\* sent when the promise of takeScreenshot settles.
MsgTakeScreenshotNow ==
  /\ HasFreeSlot
  /\ \E u \in getRandomUrl : cyc' = takeScreenshot(cyc, FreeSlot, u, TRUE)
  /\ UNCHANGED << isRunning, intervalId, currentTabId, intervals, nextTimerId, store,
                  now, tabs, activeTab, statusPending >>
  /\ UNCHANGED saving
  /\ response' = NoResponse

\* onMessage, case 'getStatus': chrome.storage.local.get is called.
MsgGetStatus ==
  /\ ~statusPending
  /\ statusPending' = TRUE
  /\ UNCHANGED << isRunning, intervalId, currentTabId, intervals, nextTimerId, store,
                  now, tabs, activeTab, cyc >>
  /\ UNCHANGED saving
  /\ response' = NoResponse

\* The .then of getStatus: the response is built from the variable isRunning
\* and the stored lastRun and totalScreenshots.
GetStatusDone ==
  /\ statusPending
  /\ statusPending' = FALSE
  /\ UNCHANGED saving
  /\ response' = [action |-> "getStatus", isRunning |-> isRunning,
                  lastRun |-> Lookup("lastRun"),
                  totalScreenshots |-> OrZero(Lookup("totalScreenshots"))]
  /\ UNCHANGED << isRunning, intervalId, currentTabId, intervals, nextTimerId, store,
                  now, tabs, activeTab, cyc >>

----------------------------------------------------------------------------
\* The steps of a cycle.

\* takeScreenshot ends: pc "done", err the error its catch logged ("stats" is
\* the one updateStats logged itself).  takeScreenshot has no throw after its
\* try/catch, so its promise is fulfilled either way.  Its locals are gone;
\* tabId lives on in the callbacks of a pending chrome.tabs.get.
Finished(r, e) ==
  [r EXCEPT !.pc = "done", !.err = e, !.url = 0, !.readTotal = 0,
            !.tabId = IF r.getPending THEN r.tabId ELSE 0]

\* The promise of takeScreenshot settles: for a 'takeScreenshotNow' message
\* the .then callback sends the response (the .catch callback is attached to
\* a promise that is never rejected).
RunNowResponse(r) ==
  IF r.pc = "done" /\ r.reply
    THEN [action |-> "takeScreenshotNow", success |-> TRUE]
    ELSE NoResponse

\* Cycle c goes on to r.
Step(c, r) ==
  /\ cyc' = [cyc EXCEPT ![c] = r]
  /\ UNCHANGED saving
  /\ response' = RunNowResponse(r)

\* A takeScreenshot that does not await waitForPageLoad: the timeout is set,
\* the listener is added, and captureScreenshot is called at once.
waitNotAwaited(r, t) ==
  [r EXCEPT !.pc = "activate", !.tabId = t, !.timing = TRUE, !.listening = TRUE,
            !.getPending = TRUE]

\* waitForPageLoad(tabId) up to its return: the timeout is set, the listener
\* is added, chrome.tabs.get is called.
waitForPageLoad(r, t) ==
  [r EXCEPT !.pc = "loadWait", !.tabId = t, !.timing = TRUE, !.listening = TRUE,
            !.getPending = TRUE]

\* A cleanup() that clears the timeout but leaves the onUpdated listener added.
cleanupKeepsListener(r) == [r EXCEPT !.timing = FALSE]

\* cleanup() of waitForPageLoad
cleanup(r) == [r EXCEPT !.timing = FALSE, !.listening = FALSE]

\* captureScreenshot(tabId) up to its first await: chrome.tabs.update is called.
captureScreenshot(r) == [r EXCEPT !.pc = "activate"]

\* cleanup(); resolve(): the first resolve lets takeScreenshot go on to
\* captureScreenshot, a later one does nothing.
resolveLoad(r) ==
  IF r.pc = "loadWait" THEN captureScreenshot(cleanup(r)) ELSE cleanup(r)

NewTabId == Cardinality(DOMAIN tabs) + 1

\* The status of a tab when the promise of the call that navigated it settles:
\* the page is loading, or it has already finished loading (its 'complete'
\* update was sent while no listener of this cycle was added).
LoadStates == {"loading", "complete"}

\* A tab is navigated to url u, or created with it.
Navigated(t, u, st) ==
  [k \in DOMAIN tabs \cup {t} |-> IF k = t THEN [url |-> u, status |-> st]
                                           ELSE tabs[k]]

\* createOrUpdateTab: chrome.tabs.query settles.
QueryDone(c) ==
  /\ cyc[c].pc = "query"
  /\ \/ \* it gives the active tab: chrome.tabs.update(activeTab.id, {url})
        /\ activeTab # 0
        /\ Step(c, [cyc[c] EXCEPT !.pc = "update", !.tabId = activeTab])
     \/ \* it gives no tab: chrome.tabs.create
        /\ activeTab = 0
        /\ Step(c, [cyc[c] EXCEPT !.pc = "create"])
     \/ \* it rejects: the catch calls chrome.tabs.create
        Step(c, [cyc[c] EXCEPT !.pc = "fallback"])
  /\ UNCHANGED << isRunning, intervalId, currentTabId, intervals, nextTimerId, store,
                  now, tabs, activeTab, statusPending >>

\* createOrUpdateTab: chrome.tabs.update(activeTab.id, {url}) settles.
UpdateDone(c) ==
  /\ cyc[c].pc = "update"
  /\ \/ \* return activeTab; currentTabId = tab.id; waitForPageLoad(tab.id)
        /\ \E st \in LoadStates : tabs' = Navigated(cyc[c].tabId, cyc[c].url, st)
        /\ currentTabId' = cyc[c].tabId
        /\ Step(c, waitForPageLoad(cyc[c], cyc[c].tabId))
     \/ \* it rejects: the catch calls chrome.tabs.create
        /\ Step(c, [cyc[c] EXCEPT !.pc = "fallback", !.tabId = 0])
        /\ UNCHANGED << tabs, currentTabId >>
  /\ UNCHANGED << isRunning, intervalId, intervals, nextTimerId, store, now,
                  activeTab, statusPending >>

\* createOrUpdateTab: chrome.tabs.create of the else branch settles.
CreateDone(c) ==
  /\ cyc[c].pc = "create"
  /\ \/ /\ \E st \in LoadStates : tabs' = Navigated(NewTabId, cyc[c].url, st)
        /\ activeTab' = NewTabId
        /\ currentTabId' = NewTabId
        /\ Step(c, waitForPageLoad(cyc[c], NewTabId))
     \/ \* it rejects inside the try: the catch calls chrome.tabs.create
        /\ Step(c, [cyc[c] EXCEPT !.pc = "fallback"])
        /\ UNCHANGED << tabs, activeTab, currentTabId >>
  /\ UNCHANGED << isRunning, intervalId, intervals, nextTimerId, store, now,
                  statusPending >>

\* createOrUpdateTab: chrome.tabs.create of the catch settles.
FallbackDone(c) ==
  /\ cyc[c].pc = "fallback"
  /\ \/ /\ \E st \in LoadStates : tabs' = Navigated(NewTabId, cyc[c].url, st)
        /\ activeTab' = NewTabId
        /\ currentTabId' = NewTabId
        /\ Step(c, waitForPageLoad(cyc[c], NewTabId))
     \/ \* it rejects: createOrUpdateTab rejects, the catch of takeScreenshot
        /\ Step(c, Finished(cyc[c], "tab"))
        /\ UNCHANGED << tabs, activeTab, currentTabId >>
  /\ UNCHANGED << isRunning, intervalId, intervals, nextTimerId, store, now,
                  statusPending >>

\* A listener that does not compare updatedTabId with tabId: the 'complete'
\* update of any tab resolves every pending wait.
TabCompleteAnyTab(t) ==
  /\ tabs[t].status = "loading"
  /\ tabs' = [tabs EXCEPT ![t].status = "complete"]
  /\ cyc' = [c \in Cycles |->
               IF cyc[c].listening THEN resolveLoad(cyc[c]) ELSE cyc[c]]
  /\ UNCHANGED << isRunning, intervalId, currentTabId, intervals, nextTimerId, store,
                  now, activeTab, statusPending >>
  /\ UNCHANGED saving
  /\ response' = NoResponse

\* The browser: tab t finishes loading; chrome.tabs.onUpdated calls every
\* listener with (t, {status: 'complete'}).
TabComplete(t) ==
  /\ tabs[t].status = "loading"
  /\ tabs' = [tabs EXCEPT ![t].status = "complete"]
  /\ cyc' = [c \in Cycles |->
               IF cyc[c].listening /\ cyc[c].tabId = t THEN resolveLoad(cyc[c])
                                                        ELSE cyc[c]]
  /\ UNCHANGED << isRunning, intervalId, currentTabId, intervals, nextTimerId, store,
                  now, activeTab, statusPending >>
  /\ UNCHANGED saving
  /\ response' = NoResponse

\* A timeout callback that rejects the promise of waitForPageLoad: the error
\* reaches the catch of takeScreenshot.
LoadTimeoutRejects(c) ==
  /\ cyc[c].timing
  /\ Step(c, IF cyc[c].pc = "loadWait" THEN Finished(cleanup(cyc[c]), "tab")
                                       ELSE cleanup(cyc[c]))
  /\ UNCHANGED << isRunning, intervalId, currentTabId, intervals, nextTimerId, store,
                  now, tabs, activeTab, statusPending >>

\* waitForPageLoad: the PAGE_LOAD_TIMEOUT timer fires.
LoadTimeout(c) ==
  /\ cyc[c].timing
  /\ Step(c, resolveLoad(cyc[c]))
  /\ UNCHANGED << isRunning, intervalId, currentTabId, intervals, nextTimerId, store,
                  now, tabs, activeTab, statusPending >>

\* The lookup of chrome.tabs.get has settled; once takeScreenshot has ended
\* too, nothing of the invocation is left.
GetSettled(r) ==
  [r EXCEPT !.getPending = FALSE, !.tabId = IF r.pc = "done" THEN 0 ELSE r.tabId]

\* waitForPageLoad: chrome.tabs.get(tabId) settles.
TabGetDone(c) ==
  /\ cyc[c].getPending
  /\ \/ \* .then: if (tab.status === 'complete') { cleanup(); resolve(); }
        cyc' = [cyc EXCEPT ![c] =
                  IF tabs[cyc[c].tabId].status = "complete"
                    THEN GetSettled(resolveLoad(cyc[c]))
                    ELSE GetSettled(cyc[c])]
     \/ \* .catch: cleanup(); resolve();
        cyc' = [cyc EXCEPT ![c] = GetSettled(resolveLoad(cyc[c]))]
  /\ UNCHANGED saving
  /\ response' = NoResponse
  /\ UNCHANGED << isRunning, intervalId, currentTabId, intervals, nextTimerId, store,
                  now, tabs, activeTab, statusPending >>

\* captureScreenshot: chrome.tabs.update(tabId, {active: true}) settles.
ActivateDone(c) ==
  /\ cyc[c].pc = "activate"
  /\ \/ \* the 1000 ms delay is started
        /\ activeTab' = cyc[c].tabId
        /\ Step(c, [cyc[c] EXCEPT !.pc = "delay"])
     \/ \* it rejects: rethrown, the catch of takeScreenshot
        /\ Step(c, Finished(cyc[c], "capture"))
        /\ UNCHANGED activeTab
  /\ UNCHANGED << isRunning, intervalId, currentTabId, intervals, nextTimerId, store,
                  now, tabs, statusPending >>

\* captureScreenshot: the delay is over, chrome.tabs.captureVisibleTab is called.
DelayDone(c) ==
  /\ cyc[c].pc = "delay"
  /\ Step(c, [cyc[c] EXCEPT !.pc = "capture"])
  /\ UNCHANGED << isRunning, intervalId, currentTabId, intervals, nextTimerId, store,
                  now, tabs, activeTab, statusPending >>

\* Mutant: a failed capture ends the automation.
CaptureDoneStops(c) ==
  /\ cyc[c].pc = "capture"
  /\ \/ /\ Step(c, [cyc[c] EXCEPT !.pc = "fetch"])
        /\ UNCHANGED << isRunning, intervalId, intervals, store >>
     \/ /\ Step(c, Finished(cyc[c], "capture"))
        /\ isRunning' = FALSE
        /\ intervals' = intervals \ {intervalId}
        /\ intervalId' = 0
        /\ store' = StorageSet([isRunning |-> FALSE])
  /\ UNCHANGED << currentTabId, nextTimerId, now, tabs, activeTab, statusPending >>

\* captureScreenshot: chrome.tabs.captureVisibleTab settles.
CaptureDone(c) ==
  /\ cyc[c].pc = "capture"
  /\ \/ \* saveScreenshot(dataUrl, randomUrl) up to await fetch(dataUrl)
        Step(c, [cyc[c] EXCEPT !.pc = "fetch"])
     \/ \* it rejects: rethrown, the catch of takeScreenshot
        Step(c, Finished(cyc[c], "capture"))
  /\ UNCHANGED << isRunning, intervalId, currentTabId, intervals, nextTimerId, store,
                  now, tabs, activeTab, statusPending >>

\* saveScreenshot: fetch(dataUrl) and response.blob() settle.
FetchDone(c) ==
  /\ cyc[c].pc = "fetch"
  /\ \/ \* URL.createObjectURL(blob); chrome.downloads.download is called
        \* with the filename made from the URL
        Step(c, [cyc[c] EXCEPT !.pc = "download", !.url = 0])
     \/ \* one of them throws: rethrown, the catch of takeScreenshot
        Step(c, Finished(cyc[c], "save"))
  /\ UNCHANGED << isRunning, intervalId, currentTabId, intervals, nextTimerId, store,
                  now, tabs, activeTab, statusPending >>

\* updateStats() up to its first await: chrome.storage.local.get is called;
\* the lookup reads what is stored.
updateStats(r) == [r EXCEPT !.pc = "statsGet", !.readTotal = Lookup("totalScreenshots")]

\* Mutant: saveScreenshot swallows the error of the download, so that
\* takeScreenshot goes on to updateStats.
DownloadDoneSwallows(c) ==
  /\ cyc[c].pc = "download"
  /\ \/ Step(c, updateStats(cyc[c]))
     \/ Step(c, [updateStats(cyc[c]) EXCEPT !.err = "save"])
  /\ UNCHANGED << isRunning, intervalId, currentTabId, intervals, nextTimerId, store,
                  now, tabs, activeTab, statusPending >>

\* saveScreenshot: chrome.downloads.download settles.
DownloadDone(c) ==
  /\ cyc[c].pc = "download"
  /\ \/ Step(c, updateStats(cyc[c]))
     \/ \* it rejects: rethrown, the catch of takeScreenshot
        Step(c, Finished(cyc[c], "save"))
  /\ UNCHANGED << isRunning, intervalId, currentTabId, intervals, nextTimerId, store,
                  now, tabs, activeTab, statusPending >>

\* The object updateStats passes to chrome.storage.local.set.
StatsRecord(r) == [totalScreenshots |-> OrZero(r.readTotal) + 1, lastRun |-> now]

\* An updateStats without its try/catch: a rejected lookup reaches the catch
\* of takeScreenshot.
StatsGetDoneThrows(c) ==
  /\ cyc[c].pc = "statsGet"
  /\ \/ /\ store' = StorageSet(StatsRecord(cyc[c]))
        /\ now' = now + 1
        /\ Step(c, [cyc[c] EXCEPT !.pc = "statsSet", !.readTotal = 0])
     \/ /\ Step(c, [cyc[c] EXCEPT !.pc = "statsSet", !.readTotal = 0, !.err = "stats"])
        /\ now' = now + 1
        /\ UNCHANGED store
     \/ /\ Step(c, Finished(cyc[c], "uncaught"))
        /\ UNCHANGED << store, now >>
  /\ UNCHANGED << isRunning, intervalId, currentTabId, intervals, nextTimerId,
                  tabs, activeTab, statusPending >>

\* updateStats: chrome.storage.local.get settles.
StatsGetDone(c) ==
  /\ cyc[c].pc = "statsGet"
  /\ \/ \* chrome.storage.local.set({totalScreenshots, lastRun}) is called and stores
        /\ store' = StorageSet(StatsRecord(cyc[c]))
        /\ now' = now + 1
        /\ Step(c, [cyc[c] EXCEPT !.pc = "statsSet", !.readTotal = 0])
     \/ \* the set is called and fails
        /\ Step(c, [cyc[c] EXCEPT !.pc = "statsSet", !.readTotal = 0, !.err = "stats"])
        /\ now' = now + 1
        /\ UNCHANGED store
     \/ \* the get rejects: the catch of updateStats logs; takeScreenshot completes
        /\ Step(c, Finished(cyc[c], "stats"))
        /\ UNCHANGED << store, now >>
  /\ UNCHANGED << isRunning, intervalId, currentTabId, intervals, nextTimerId,
                  tabs, activeTab, statusPending >>

\* updateStats: chrome.storage.local.set settles; takeScreenshot completes.
StatsSetDone(c) ==
  /\ cyc[c].pc = "statsSet"
  /\ Step(c, Finished(cyc[c], cyc[c].err))
  /\ UNCHANGED << isRunning, intervalId, currentTabId, intervals, nextTimerId, store,
                  now, tabs, activeTab, statusPending >>

----------------------------------------------------------------------------

Init ==
  /\ isRunning = FALSE
  /\ intervalId = 0
  /\ currentTabId = 0
  /\ intervals = {}
  /\ nextTimerId = 1
  /\ store = [k \in {} |-> 0]
  /\ now = 0
  \* the window has an active tab showing some page, or there is no tab
  /\ \/ tabs = [k \in {1} |-> [url |-> 0, status |-> "complete"]] /\ activeTab = 1
     \/ tabs = [k \in {} |-> 0] /\ activeTab = 0
  /\ cyc = [c \in Cycles |-> IdleCycle]
  /\ statusPending = FALSE
  /\ response = NoResponse
  /\ saving = NoSaving

Next ==
  \/ OnStartup
  \/ OnInstalled
  \/ OnSuspend
  \/ MsgStart
  \/ MsgStop
  \/ MsgTakeScreenshotNow
  \/ MsgGetStatus
  \/ GetStatusDone
  \/ TimerTick
  \/ \E t \in DOMAIN tabs : TabComplete(t)
  \/ \E c \in Cycles :
       \/ QueryDone(c)
       \/ UpdateDone(c)
       \/ CreateDone(c)
       \/ FallbackDone(c)
       \/ LoadTimeout(c)
       \/ TabGetDone(c)
       \/ ActivateDone(c)
       \/ DelayDone(c)
       \/ CaptureDone(c)
       \/ FetchDone(c)
       \/ DownloadDone(c)
       \/ StatsGetDone(c)
       \/ StatsSetDone(c)

Spec == Init /\ [][Next]_vars

----------------------------------------------------------------------------
\* saveScreenshot taken alone: the filename of lines 200-202 as a function of
\* sourceUrl and of the Date it reads.  A string is a sequence of characters.

\* Length of the hostnames tried.
MaxHostLen == 6

\* The characters of the hostnames tried.
HostAlphabet == {"w", ".", "a"}

Scheme == << "h", "t", "t", "p", "s", ":", "/", "/" >>

\* https://www.example.com
ExampleUrl ==
  Scheme \o << "w", "w", "w", ".", "e", "x", "a", "m", "p", "l", "e", ".", "c", "o", "m" >>

\* The URLs saveScreenshot is tried with: a scheme and a hostname, like the
\* entries of TARGET_URLS.
SourceUrls ==
  {ExampleUrl} \cup
    {Scheme \o h : h \in {g \in UNION {[1..n -> HostAlphabet] : n \in 1..MaxHostLen} :
                            /\ g[1] # "." /\ g[Len(g)] # "."
                            /\ \A i \in 1..(Len(g) - 1) : g[i] # "." \/ g[i + 1] # "."}}

\* The dates new Date() is tried with (UTC, years of four digits).
Dates ==
  [year : {2024}, month : {1, 12}, day : {15}, hours : {0, 10, 23},
   minutes : {30}, seconds : {0, 59}, ms : {0, 7, 999}]

DigitChars == << "0", "1", "2", "3", "4", "5", "6", "7", "8", "9" >>

\* n written with w digits, padded with zeros.
Pad(n, w) == [i \in 1..w |-> DigitChars[((n \div (10 ^ (w - i))) % 10) + 1]]

\* Date.prototype.toISOString: YYYY-MM-DDTHH:mm:ss.sssZ
toISOString(d) ==
  Pad(d.year, 4) \o << "-" >> \o Pad(d.month, 2) \o << "-" >> \o Pad(d.day, 2)
    \o << "T" >> \o Pad(d.hours, 2) \o << ":" >> \o Pad(d.minutes, 2)
    \o << ":" >> \o Pad(d.seconds, 2) \o << "." >> \o Pad(d.ms, 3) \o << "Z" >>

\* new URL(sourceUrl).hostname of an https URL that is a scheme and a host.
hostname(url) == SubSeq(url, Len(Scheme) + 1, Len(url))

\* pat occurs in s at position i.
OccursAt(s, pat, i) ==
  i + Len(pat) - 1 <= Len(s) /\ SubSeq(s, i, i + Len(pat) - 1) = pat

\* String.prototype.replace(pat, rep) with a string pattern: the first
\* occurrence of pat, wherever it is, is replaced.
replace(s, pat, rep) ==
  LET at == {i \in 1..Len(s) : OccursAt(s, pat, i)}
  IN  IF at = {} THEN s
      ELSE LET i == CHOOSE k \in at : \A j \in at : k <= j
           IN  SubSeq(s, 1, i - 1) \o rep \o SubSeq(s, i + Len(pat), Len(s))

\* String.prototype.replace(/[chars]/g, ch): every character of chars is
\* replaced.
replaceAll(s, chars, ch) == [i \in 1..Len(s) |-> IF s[i] \in chars THEN ch ELSE s[i]]

\* String.prototype.slice(0, -n)
sliceEnd(s, n) == SubSeq(s, 1, Len(s) - n)

\* Lines 200-202: urlDomain, timestamp, filename.
Filename(sourceUrl, d) ==
  LET urlDomain == replace(hostname(sourceUrl), << "w", "w", "w", "." >>, << >>)
      timestamp == sliceEnd(replaceAll(toISOString(d), {":", "."}, "-"), 5)
  IN  << "s", "c", "r", "e", "e", "n", "s", "h", "o", "t", "_" >> \o urlDomain
        \o << "_" >> \o timestamp \o << ".", "p", "n", "g" >>

\* saveScreenshot(dataUrl, sourceUrl) is called with one of the URLs at one of
\* the dates; the background script is as loaded and does nothing else.
InitSaving ==
  /\ isRunning = FALSE
  /\ intervalId = 0
  /\ currentTabId = 0
  /\ intervals = {}
  /\ nextTimerId = 1
  /\ store = [k \in {} |-> 0]
  /\ now = 0
  /\ tabs = [k \in {} |-> 0] /\ activeTab = 0
  /\ cyc = [c \in Cycles |-> IdleCycle]
  /\ statusPending = FALSE
  /\ response = NoResponse
  /\ \E u \in SourceUrls, d \in Dates :
       saving = [sourceUrl |-> u, date |-> d, filename |-> << >>]

\* saveScreenshot up to its first await: the filename is made.
saveScreenshot ==
  /\ saving.filename = << >>
  /\ saving' = [saving EXCEPT !.filename = Filename(saving.sourceUrl, saving.date)]
  /\ UNCHANGED << isRunning, intervalId, currentTabId, intervals, nextTimerId, store,
                  now, tabs, activeTab, cyc, statusPending, response >>

SpecSaving == InitSaving /\ [][saveScreenshot]_vars

----------------------------------------------------------------------------
\* Properties.

TotalStored == OrZero(Lookup("totalScreenshots"))

\* takeScreenshot of slot c ends in this step.
Ends(c) == cyc[c].pc # "done" /\ cyc'[c].pc = "done"

\* takeScreenshot of slot c is invoked in this step.
Begins(c) == cyc[c].pc = "idle" /\ cyc'[c].pc # "idle"

\* The errors that end a cycle in the catch of takeScreenshot.
CycleErrors == {"tab", "capture", "save"}

\* C1: in every reachable state the number of interval timers that are set is
\* 1 when isRunning is true and 0 when it is false, and while running the
\* timer set is the one intervalId names.
C1_OneTimerIffRunning ==
  /\ Cardinality(intervals) = IF isRunning THEN 1 ELSE 0
  /\ isRunning => intervalId \in intervals
  /\ ~isRunning => intervalId = 0

\* C1 witness: running again after a stop, the second timer being the only one.
C1_Witness == isRunning /\ nextTimerId = 3 /\ intervals = {2}

\* C2: at most one takeScreenshot invocation is between its start and its
\* completion at any time.
C2_AtMostOneCycleInFlight == Cardinality({c \in Cycles : InFlight(c)}) <= 1

\* The stats update of cycle c has stored its record.
StatsStored(c) == cyc[c].pc \in {"statsSet", "done"} /\ cyc[c].err = "none"

\* C3: with no start or stop at all (the storage was empty before the
\* cycles), the stored totalScreenshots is the number of cycles whose stats
\* update has stored.
C3_TotalCountsCycles ==
  (~isRunning /\ nextTimerId = 1)
    => TotalStored = Cardinality({c \in Cycles : StatsStored(c)})

\* C4: no step that ends with isRunning true stores a totalScreenshots
\* smaller than the one stored before the step.
C4_TotalNeverDecreasesWhileRunning ==
  [][isRunning' => TotalStored' >= TotalStored]_vars

\* C5: a cycle that fails in capture or save ends there, the failing step
\* leaving the storage as it was: it never reaches the stats update.
C5_FailedCycleSkipsStats ==
  [][\A c \in Cycles :
       cyc'[c].err \in {"capture", "save"}
         => /\ cyc'[c].pc = "done"
            /\ cyc[c].err = "none" => store' = store]_vars

\* C5 witness: the second cycle failed in capture after the first one had
\* been counted.
C5_Witness ==
  /\ cyc[1].pc = "done" /\ cyc[1].err = "none"
  /\ cyc[2].pc = "done" /\ cyc[2].err = "capture"
  /\ Lookup("totalScreenshots") = 1

\* C6: a step in which a cycle ends with an error leaves isRunning, the timer
\* handle and the timers as they were; and whenever a cycle has failed while
\* running, the timer is set and its tick is enabled (a slot being free).
C6_FailureKeepsSchedule ==
  [][/\ (\E c \in Cycles : Ends(c) /\ cyc'[c].err # "none")
          => UNCHANGED << isRunning, intervalId, intervals >>
     /\ (isRunning /\ HasFreeSlot /\ \E c \in Cycles : cyc[c].pc = "done" /\ cyc[c].err # "none")
          => intervalId \in intervals /\ ENABLED TimerTick]_vars

\* C6 witness: started once and never stopped, the first cycle failed in
\* capture and a tick has started the second.
C6_Witness ==
  /\ isRunning /\ nextTimerId = 2
  /\ cyc[1].pc = "done" /\ cyc[1].err = "capture"
  /\ cyc[2].pc = "query" /\ ~cyc[2].reply

\* C7: whenever the response to 'takeScreenshotNow' says success: true, a
\* cycle started by such a message has ended without an error of tab
\* acquisition, capture or save.
C7_RunNowReportsFailure ==
  (response.action = "takeScreenshotNow" /\ response.success)
    => \E c \in Cycles : cyc[c].reply /\ cyc[c].pc = "done" /\ cyc[c].err \notin CycleErrors

\* C8: a 'start' message handled while running starts no cycle, sets no timer
\* and writes nothing to the storage.
C8_StartWhileRunningIsNoOp ==
  [][(isRunning /\ response'.action = "start")
       => UNCHANGED << isRunning, intervalId, intervals, nextTimerId, store, cyc,
                       now, tabs, activeTab, currentTabId >>]_vars

\* C8 witness: 'start' was answered with the first cycle past its load
\* wait, no second cycle and no second timer.
C8_Witness ==
  /\ response.action = "start" /\ isRunning
  /\ cyc[1].pc = "delay" /\ cyc[2].pc = "idle"
  /\ nextTimerId = 2 /\ Lookup("totalScreenshots") = 0

\* C9: a 'stop' message handled when not running leaves isRunning, the timer
\* handle, the timers, the storage and the cycles as they were and is
\* answered with success (so is every 'stop'); onSuspend when not running
\* changes nothing either.
C9_StopWhenStoppedIsNoOp ==
  [][/\ (MsgStop \/ OnSuspend) /\ ~isRunning
          => UNCHANGED << isRunning, intervalId, intervals, nextTimerId, store, cyc,
                          now, tabs, activeTab, currentTabId >>
     /\ MsgStop => response' = [action |-> "stop", success |-> TRUE]]_vars

\* C9 witness: 'stop' was answered with nothing ever started and nothing stored.
C9_Witness ==
  /\ response = [action |-> "stop", success |-> TRUE]
  /\ ~isRunning /\ nextTimerId = 1 /\ DOMAIN store = {}

\* C10: when not running no interval timer is set, and a step that starts a
\* cycle from the stopped state either starts a 'takeScreenshotNow' cycle or
\* is a start (it ends running).
C10_NoTickWhenStopped ==
  [][~isRunning
       => /\ intervals = {}
          /\ ~ENABLED TimerTick
          /\ \A c \in Cycles : Begins(c) => (cyc'[c].reply \/ isRunning')]_vars

\* C10 witness: stopped after a start, and a 'takeScreenshotNow' cycle under way.
C10_Witness ==
  /\ ~isRunning /\ nextTimerId = 2 /\ Lookup("isRunning") = FALSE
  /\ cyc[2].pc = "query" /\ cyc[2].reply

\* C11: a 'takeScreenshotNow' message is handled whether the automation is
\* running or stopped; its step invokes takeScreenshot exactly once, for
\* the sender, and leaves isRunning, intervalId and the interval timers as
\* they were.
C11_RunNowLeavesAutomationAlone ==
  [][/\ HasFreeSlot => ENABLED MsgTakeScreenshotNow
     /\ MsgTakeScreenshotNow =>
          /\ Cardinality({c \in Cycles : Begins(c)}) = 1
          /\ \A c \in Cycles : Begins(c) => cyc'[c].reply /\ cyc'[c].pc = "query"
          /\ UNCHANGED << isRunning, intervalId, intervals >>]_vars

\* The automation is running, its first cycle is under way, and a cycle
\* asked for by 'takeScreenshotNow' has just been started beside it.
C11_Witness ==
  /\ isRunning /\ intervalId \in intervals
  /\ \E c, d \in Cycles : /\ cyc[c].pc = "query" /\ cyc[c].reply
                          /\ InFlight(d) /\ ~cyc[d].reply

\* The extension used on demand: the automation is not started, the popup
\* sends 'takeScreenshotNow' messages only, and the cycles they start run
\* against a browser that does as it likes.
NextOnDemand ==
  \/ MsgTakeScreenshotNow
  \/ \E t \in DOMAIN tabs : TabComplete(t)
  \/ \E c \in Cycles :
       \/ QueryDone(c)
       \/ UpdateDone(c)
       \/ CreateDone(c)
       \/ FallbackDone(c)
       \/ LoadTimeout(c)
       \/ TabGetDone(c)
       \/ ActivateDone(c)
       \/ DelayDone(c)
       \/ CaptureDone(c)
       \/ FetchDone(c)
       \/ DownloadDone(c)
       \/ StatsGetDone(c)
       \/ StatsSetDone(c)

\* The same with timers that fire: a PAGE_LOAD_TIMEOUT timer that is set and
\* not cleared fires in the end. Nothing is assumed of the tabs, of
\* chrome.tabs.get or of any other request.
SpecTimersFire ==
  Init /\ [][NextOnDemand]_vars /\ \A c \in Cycles : WF_vars(LoadTimeout(c))

\* C12: a waitForPageLoad that is pending has its timer set and ends in the
\* end, whatever the tab does; it ends by resolving (takeScreenshot goes on
\* to captureScreenshot), never by rejecting, and the firing of its timer
\* ends it if nothing has before.
C12_LoadWaitResolves ==
  /\ \A c \in Cycles : (cyc[c].pc = "loadWait") ~> (cyc[c].pc # "loadWait")
  /\ [](\A c \in Cycles : cyc[c].pc = "loadWait" => cyc[c].timing)
  /\ [][\A c \in Cycles :
          /\ cyc[c].pc = "loadWait" => cyc'[c].pc \in {"loadWait", "activate"}
          /\ LoadTimeout(c) => cyc'[c].pc # "loadWait"]_vars

\* A wait has been ended by its timer alone: the tab is still loading, the
\* lookup of chrome.tabs.get has not settled, and captureScreenshot has begun.
C12_Witness ==
  \E c \in Cycles : /\ cyc[c].pc = "activate" /\ cyc[c].getPending
                    /\ cyc[c].tabId \in DOMAIN tabs
                    /\ tabs[cyc[c].tabId].status = "loading"
                    /\ \A d \in Cycles \ {c} : Idle(d)

\* C13: outside a pending waitForPageLoad no invocation has an onUpdated
\* listener added or a PAGE_LOAD_TIMEOUT timer set: the path that resolves
\* the wait removes both, so an ended cycle leaves none behind.
C13_NoListenerOrTimerLeft ==
  \A c \in Cycles : cyc[c].pc # "loadWait" => ~cyc[c].listening /\ ~cyc[c].timing

\* A cycle has ended after its wait was resolved and the lookup of
\* chrome.tabs.get has settled; no listener and no timer is left.
C13_Witness ==
  \E c \in Cycles : /\ cyc[c].pc = "done" /\ cyc[c].err \in {"none", "stats"}
                    /\ ~cyc[c].getPending /\ ~cyc[c].listening /\ ~cyc[c].timing

\* The one cycle of a first start has stored its statistics: start was called
\* once on the fresh program, nothing else has invoked takeScreenshot, and
\* the cycle went through capture, save and the stats update.
FirstCycleStored ==
  /\ isRunning /\ nextTimerId = 2
  /\ cyc[1].pc = "done" /\ cyc[1].err = "none" /\ ~cyc[1].reply
  /\ \A c \in Cycles \ {1} : Idle(c)

\* C14: the step that starts the automation invokes takeScreenshot itself,
\* before any tick, and stores totalScreenshots 0 in that same step; a wait
\* that the lookup of an already complete tab resolves still has its timer
\* set (it has not fired) and clears it; and when the one cycle of a first
\* start has stored its statistics, the stored totalScreenshots is 1 and the
\* stored isRunning is true.
C14_FirstStartCountsOne ==
  /\ [](FirstCycleStored => TotalStored = 1 /\ Lookup("isRunning") = TRUE)
  /\ [][/\ (~isRunning /\ isRunning') =>
             /\ \E c \in Cycles : Begins(c) /\ ~cyc'[c].reply
             /\ TotalStored' = 0
        /\ \A c \in Cycles :
             (/\ cyc[c].pc = "loadWait" /\ cyc'[c].pc = "activate"
              /\ cyc[c].getPending /\ ~cyc'[c].getPending)
             => cyc[c].timing /\ ~cyc'[c].timing]_vars

\* The end of that run: the tab the cycle navigated was complete, the lookup
\* has settled, and the count stored is 1.
C14_Witness ==
  /\ FirstCycleStored
  /\ tabs[1].status = "complete" /\ tabs[1].url = 1
  /\ ~cyc[1].getPending
  /\ TotalStored = 1

\* The hostname with a leading "www." removed, and nothing else.
WithoutLeadingWww(h) ==
  IF OccursAt(h, << "w", "w", "w", "." >>, 1) THEN SubSeq(h, 5, Len(h)) ELSE h

\* The date as YYYY-MM-DDTHH-mm-ss.
DashedStamp(d) ==
  Pad(d.year, 4) \o << "-" >> \o Pad(d.month, 2) \o << "-" >> \o Pad(d.day, 2)
    \o << "T" >> \o Pad(d.hours, 2) \o << "-" >> \o Pad(d.minutes, 2)
    \o << "-" >> \o Pad(d.seconds, 2)

\* C15: the filename saveScreenshot makes is screenshot_<host>_<stamp>.png,
\* <host> being the hostname of sourceUrl without a leading "www." and
\* <stamp> the date as YYYY-MM-DDTHH-mm-ss, for every URL and date tried.
C15_FilenameOfUrlAndDate ==
  saving.filename # << >> =>
    saving.filename =
      << "s", "c", "r", "e", "e", "n", "s", "h", "o", "t", "_" >>
        \o WithoutLeadingWww(hostname(saving.sourceUrl)) \o << "_" >>
        \o DashedStamp(saving.date) \o << ".", "p", "n", "g" >>

\* The order of takeScreenshot: from which await to which an invocation goes.
CycleOrder ==
  { << "idle", "query" >>,
    << "query", "update" >>, << "query", "create" >>, << "query", "fallback" >>,
    << "update", "loadWait" >>, << "update", "fallback" >>,
    << "create", "loadWait" >>, << "create", "fallback" >>,
    << "fallback", "loadWait" >>, << "fallback", "done" >>,
    << "loadWait", "activate" >>,
    << "activate", "delay" >>, << "activate", "done" >>,
    << "delay", "capture" >>,
    << "capture", "fetch" >>, << "capture", "done" >>,
    << "fetch", "download" >>, << "fetch", "done" >>,
    << "download", "statsGet" >>, << "download", "done" >>,
    << "statsGet", "statsSet" >>, << "statsGet", "done" >>,
    << "statsSet", "done" >> }

\* C16: an invocation goes from await to await in the order navigate,
\* load-wait, capture, save, stats update: captureScreenshot is called only
\* by the step that resolves the invocation's load-wait, saveScreenshot only
\* when its captureVisibleTab has resolved, chrome.downloads.download only
\* from saveScreenshot, and updateStats only when that download has resolved
\* with no error so far.
C16_StepsInOrder ==
  [][\A c \in Cycles :
       cyc'[c].pc # cyc[c].pc =>
         /\ << cyc[c].pc, cyc'[c].pc >> \in CycleOrder
         /\ cyc'[c].pc = "activate" => ~cyc'[c].listening /\ ~cyc'[c].timing
         /\ cyc'[c].pc \in {"fetch", "download", "statsGet"} => cyc'[c].err = "none"]_vars

\* An invocation has gone through every step and waits for the storage
\* lookup of updateStats.
C16_Witness ==
  \E c \in Cycles : /\ cyc[c].pc = "statsGet" /\ cyc[c].err = "none"
                    /\ tabs[cyc[c].tabId].status = "complete"

\* C17: a 'complete' update of a tab leaves every pending wait that was
\* started with another tab id as it is, listener added and timer set; and
\* a wait that an update resolves was started with the id of the tab that
\* has just completed.
C17_OtherTabLeavesWaitPending ==
  [][\A c \in Cycles :
       /\ \A t \in DOMAIN tabs :
            (TabComplete(t) /\ cyc[c].pc = "loadWait" /\ cyc[c].tabId # t)
              => cyc'[c] = cyc[c] /\ cyc'[c].listening /\ cyc'[c].timing
       /\ (cyc[c].pc = "loadWait" /\ cyc'[c].pc # "loadWait" /\ tabs' # tabs)
            => /\ tabs[cyc[c].tabId].status = "loading"
               /\ tabs'[cyc[c].tabId].status = "complete"]_vars

\* Two waits on two tabs: the tab of one has completed and its wait is
\* resolved, the wait on the other tab is still pending.
C17_Witness ==
  \E c, d \in Cycles :
    /\ cyc[c].pc = "loadWait" /\ cyc[c].listening /\ cyc[c].timing
    /\ tabs[cyc[c].tabId].status = "loading"
    /\ cyc[d].pc = "activate" /\ cyc[d].getPending
    /\ cyc[d].tabId # cyc[c].tabId
    /\ tabs[cyc[d].tabId].status = "complete"

\* The only invocation so far has stored its statistics, and its wait can
\* only have been ended by the timeout: its tab is still loading and the
\* lookup of chrome.tabs.get has not settled.
TimedOutCycleStored ==
  \E c \in Cycles :
    /\ cyc[c].pc = "done" /\ cyc[c].err = "none"
    /\ cyc[c].getPending
    /\ tabs[cyc[c].tabId].status = "loading"
    /\ \A d \in Cycles \ {c} : Idle(d)

\* C18: the timeout callback of a pending wait makes takeScreenshot go on to
\* captureScreenshot with no error; and when an invocation whose wait was
\* ended by the timeout has gone through capture, save and the stats update,
\* the stored totalScreenshots is one more than before (1, for the only
\* invocation so far).
C18_TimeoutIsNoFailure ==
  /\ [](TimedOutCycleStored => TotalStored = 1)
  /\ [][\A c \in Cycles :
          (LoadTimeout(c) /\ cyc[c].pc = "loadWait")
            => cyc'[c].pc = "activate" /\ cyc'[c].err = "none"]_vars

\* Started by 'start', the first cycle timed out on its wait and stored its
\* statistics all the same.
C18_Witness == TimedOutCycleStored /\ isRunning /\ TotalStored = 1

\* C19: an invocation that ends from its stats update ends with no error or
\* with the error updateStats has caught, never with one that reached the
\* catch of takeScreenshot; the step leaves isRunning, intervalId and the
\* interval timers as they were, and a 'takeScreenshotNow' sender is told
\* success: true.
C19_StatsFailureAbsorbed ==
  [][\A c \in Cycles :
       (cyc[c].pc \in {"statsGet", "statsSet"} /\ cyc'[c].pc = "done")
         => /\ cyc'[c].err \in {"none", "stats"}
            /\ UNCHANGED << isRunning, intervalId, intervals >>
            /\ cyc'[c].reply
                 => response' = [action |-> "takeScreenshotNow", success |-> TRUE]]_vars

\* While the automation runs, a cycle has ended whose stats update failed;
\* the timer is still set and nothing was counted.
C19_Witness ==
  /\ isRunning /\ intervalId \in intervals
  /\ \E c \in Cycles : cyc[c].pc = "done" /\ cyc[c].err = "stats"
  /\ TotalStored = 0

\* C20: when captureVisibleTab gives an invocation its image, the active tab
\* is the tab the invocation navigated and that tab shows the URL the
\* invocation chose.
C20_CaptureShowsOwnTab ==
  [][\A c \in Cycles :
       (cyc[c].pc = "capture" /\ cyc'[c].pc = "fetch")
         => /\ activeTab = cyc[c].tabId
            /\ tabs[cyc[c].tabId].url = cyc[c].url]_vars

====
